---------------------------- MODULE Spec2Model ----------------------------
(***************************************************************************)
(* HD Avatar extension (secure-oo/st-hd-avatar).                           *)
(*                                                                         *)
(* Two scripts are modelled:                                               *)
(*   src/index.js          the lazy script  (scheduleUpgrade / swapSrc,    *)
(*                         IntersectionObserver, /User Avatars/ retry)     *)
(*   src/unnamed/part_000  the eager script (upgradeImg)                   *)
(* The variable `lazy` says which of the two is installed in the page.     *)
(*                                                                         *)
(* Strings are sequences of one-character strings, so that URL parsing,    *)
(* startsWith / endsWith / match / split are computed character by         *)
(* character as the code computes them.                                    *)
(***************************************************************************)
EXTENDS Integers, Sequences, FiniteSets

VARIABLES
    lazy,         \* TRUE: src/index.js is the installed script; FALSE: part_000
    ioSupported,  \* index.js:96  typeof IntersectionObserver !== 'undefined'
    armed,        \* init() has run: the scan is done, the MutationObserver observes
    scans,        \* number of runs of init(), that is of the scan of the document
    img,          \* the <img> elements: attribute, dataset, listeners, load state
    observed,     \* targets of lazyObserver (index.js:97)
    records,      \* MutationRecords queued for the MutationObserver callback
    dispatch,     \* the error event being dispatched: the listeners still to run
    hostOps,      \* number of host-page operations so far (bounded)
    input,        \* translator specification: the source string under translation
    output        \* translator specification: the result of the translation

vars == <<lazy, ioSupported, armed, scans, img, observed, records, dispatch, hostOps,
          input, output>>

-----------------------------------------------------------------------------
(* Bounds *)

\* number of host-page operations (src assignments, node insertions)
MaxHostOps == 3

\* number of tokens a generated file name is made of
MaxTokens == 2

-----------------------------------------------------------------------------
(* String literals of the source *)

Null == <<>>     \* null / undefined / '' : everything `!x` is true of

Origin == <<"h","t","t","p",":","/","/","h">>                  \* location.origin
HTTP == <<"h","t","t","p">>
SCHEME_HTTP == <<"h","t","t","p",":","/","/">>
SCHEME_HTTPS == <<"h","t","t","p","s",":","/","/">>
THUMBNAIL == <<"t","h","u","m","b","n","a","i","l">>
SLASH_THUMBNAIL == <<"/","t","h","u","m","b","n","a","i","l">>
THUMBNAILS_AVATAR ==
    <<"/","t","h","u","m","b","n","a","i","l","s","/","a","v","a","t","a","r","/">>
THUMBNAILS_PERSONA ==
    <<"/","t","h","u","m","b","n","a","i","l","s","/","p","e","r","s","o","n","a","/">>
CHARACTERS == <<"/","c","h","a","r","a","c","t","e","r","s","/">>
USER_AVATARS == <<"/","U","s","e","r"," ","A","v","a","t","a","r","s","/">>
K_type == <<"t","y","p","e">>
K_file == <<"f","i","l","e">>
V_avatar == <<"a","v","a","t","a","r">>
V_persona == <<"p","e","r","s","o","n","a">>

-----------------------------------------------------------------------------
(* String primitives *)

StartsWith(s, p) ==
    /\ Len(p) <= Len(s)
    /\ SubSeq(s, 1, Len(p)) = p

EndsWith(s, p) ==
    /\ Len(p) <= Len(s)
    /\ SubSeq(s, Len(s) - Len(p) + 1, Len(s)) = p

\* the characters of s from position k on
From(s, k) == SubSeq(s, k, Len(s))

\* the position of the first character of s that is in cs, or Len(s) + 1
FirstOf(s, cs) ==
    IF \E k \in 1..Len(s) : s[k] \in cs
    THEN CHOOSE k \in 1..Len(s) :
            /\ s[k] \in cs
            /\ \A j \in 1..(k - 1) : s[j] \notin cs
    ELSE Len(s) + 1

\* the position of the leftmost occurrence of lit in s, or 0
IndexOf(s, lit) ==
    LET hits == { k \in 1..(Len(s) - Len(lit) + 1) :
                    SubSeq(s, k, k + Len(lit) - 1) = lit }
    IN IF hits = {} THEN 0
       ELSE CHOOSE k \in hits : \A j \in hits : k <= j

\* s.includes(lit)
Includes(s, lit) == IndexOf(s, lit) # 0

\* s.split(lit)[1]: what lies between the first and the second occurrence
SplitSecond(s, lit) ==
    LET k == IndexOf(s, lit)
        rest == From(s, k + Len(lit))
        n == IndexOf(rest, lit)
    IN IF k = 0 THEN Null
       ELSE IF n = 0 THEN rest ELSE SubSeq(rest, 1, n - 1)

\* the URL parser strips leading and trailing spaces from its input
RECURSIVE StripSpaces(_)
StripSpaces(s) ==
    IF s = <<>> THEN s
    ELSE IF s[1] = " " THEN StripSpaces(Tail(s))
    ELSE IF s[Len(s)] = " " THEN StripSpaces(SubSeq(s, 1, Len(s) - 1))
    ELSE s

\* percent-encoding of a path or query: of the model's characters only the
\* space is in the encode sets
RECURSIVE PercentEncode(_)
PercentEncode(s) ==
    IF s = <<>> THEN <<>>
    ELSE IF s[1] = " " THEN <<"%", "2", "0">> \o PercentEncode(Tail(s))
    ELSE <<s[1]>> \o PercentEncode(Tail(s))

\* application/x-www-form-urlencoded decoding of a name or value: '+' is a
\* space, %20 is a space (the one escape the model's characters can spell)
RECURSIVE FormDecode(_)
FormDecode(s) ==
    IF s = <<>> THEN <<>>
    ELSE IF s[1] = "+" THEN <<" ">> \o FormDecode(Tail(s))
    ELSE IF Len(s) >= 3 /\ SubSeq(s, 1, 3) = <<"%", "2", "0">>
         THEN <<" ">> \o FormDecode(From(s, 4))
    ELSE <<s[1]>> \o FormDecode(Tail(s))

-----------------------------------------------------------------------------
(* new URL(base): pathname and searchParams *)

NoURL == [ok |-> FALSE, pathname |-> Null, query |-> Null]

\* what follows "http://" or "https://", or null for any other string
AfterScheme(s) ==
    IF StartsWith(s, SCHEME_HTTPS) THEN From(s, Len(SCHEME_HTTPS) + 1)
    ELSE IF StartsWith(s, SCHEME_HTTP) THEN From(s, Len(SCHEME_HTTP) + 1)
    ELSE Null

\* the path and the query of what follows the host and precedes the fragment
PathAndQuery(noFrag, q) ==
    [ok |-> TRUE,
     pathname |-> IF q = 1 THEN <<"/">> ELSE PercentEncode(SubSeq(noFrag, 1, q - 1)),
     query |-> PercentEncode(From(noFrag, q + 1))]

AfterHost(rest, hash) ==
    PathAndQuery(SubSeq(rest, 1, hash - 1), FirstOf(SubSeq(rest, 1, hash - 1), {"?"}))

HostAndRest(a, hostEnd) ==
    IF hostEnd = 1 \/ " " \in { a[k] : k \in 1..(hostEnd - 1) }
    THEN NoURL
    ELSE AfterHost(From(a, hostEnd), FirstOf(From(a, hostEnd), {"#"}))

ParseAuthority(a) == HostAndRest(a, FirstOf(a, {"/", "?", "#"}))

\* new URL(base) for an absolute http(s) string; anything else throws
ParseURL(base) == ParseAuthority(AfterScheme(StripSpaces(base)))

\* the value of the pair, if it is called name
PairValue(pair, eq, name) ==
    IF pair # <<>> /\ FormDecode(SubSeq(pair, 1, eq - 1)) = name
    THEN [found |-> TRUE, value |-> FormDecode(From(pair, eq + 1))]
    ELSE [found |-> FALSE, value |-> Null]

\* url.searchParams.get(name): the value of the first pair called name, or null
RECURSIVE SearchParamsGet(_, _)
FirstPair(query, amp, name, hit) ==
    IF hit.found THEN hit.value
    ELSE SearchParamsGet(From(query, amp + 1), name)

SearchParamsAt(query, amp, name) ==
    FirstPair(query, amp, name,
              PairValue(SubSeq(query, 1, amp - 1),
                        FirstOf(SubSeq(query, 1, amp - 1), {"="}), name))

SearchParamsGet(query, name) ==
    IF query = <<>> THEN Null
    ELSE SearchParamsAt(query, FirstOf(query, {"&"}), name)

\* the capture group of p.match(/<lit>(.+)$/) given where lit first occurs
RestAfter(p, lit, k) ==
    IF k = 0 \/ k + Len(lit) > Len(p) THEN Null
    ELSE From(p, k + Len(lit))

\* p.match(/<lit>(.+)$/): the capture group, or null
MatchRest(p, lit) == RestAfter(p, lit, IndexOf(p, lit))

\* the string handed to new URL
Base(src) ==
    IF StartsWith(src, HTTP) THEN src
    ELSE Origin \o (IF StartsWith(src, <<"/">>) THEN <<>> ELSE <<"/">>) \o src

-----------------------------------------------------------------------------
(* URL Translator *)

\* p.endsWith('/thumbnail') || p.endsWith('thumbnail')
IsThumbnailPath(p) == EndsWith(p, SLASH_THUMBNAIL) \/ EndsWith(p, THUMBNAIL)

\* the path form: /thumbnails/avatar/<rest>, then /thumbnails/persona/<rest>
PathFormHD(avatarMatch, personaMatch) ==
    IF avatarMatch # Null THEN CHARACTERS \o avatarMatch
    ELSE IF personaMatch # Null THEN USER_AVATARS \o personaMatch
    ELSE Null

\* index.js toHDSrc with the two targets of the query form exchanged
toHDSrcOf_swapped(p, type, file) ==
    IF IsThumbnailPath(p) /\ file = Null THEN Null
    ELSE IF IsThumbnailPath(p) /\ type = V_persona THEN CHARACTERS \o file
    ELSE IF IsThumbnailPath(p) /\ type = V_avatar THEN USER_AVATARS \o file
    ELSE PathFormHD(MatchRest(p, THUMBNAILS_AVATAR), MatchRest(p, THUMBNAILS_PERSONA))

\* index.js toHDSrc without `if (!file) return null`
toHDSrcOf_nofile(p, type, file) ==
    IF IsThumbnailPath(p) /\ type = V_persona THEN USER_AVATARS \o file
    ELSE IF IsThumbnailPath(p) /\ type = V_avatar THEN CHARACTERS \o file
    ELSE PathFormHD(MatchRest(p, THUMBNAILS_AVATAR), MatchRest(p, THUMBNAILS_PERSONA))

\* index.js toHDSrc, lines 34-50: from the parsed pathname and parameters
toHDSrcOf(p, type, file) ==
    IF IsThumbnailPath(p) /\ file = Null THEN Null
    ELSE IF IsThumbnailPath(p) /\ type = V_persona THEN USER_AVATARS \o file
    ELSE IF IsThumbnailPath(p) /\ type = V_avatar THEN CHARACTERS \o file
    ELSE PathFormHD(MatchRest(p, THUMBNAILS_AVATAR), MatchRest(p, THUMBNAILS_PERSONA))

toHDSrcURL(url) ==
    IF ~url.ok THEN Null
    ELSE toHDSrcOf(url.pathname, SearchParamsGet(url.query, K_type),
                   SearchParamsGet(url.query, K_file))

\* src/index.js toHDSrc
toHDSrc(src) ==
    IF src = Null THEN Null
    ELSE toHDSrcURL(ParseURL(Base(src)))

\* part_000 toHDSrc, lines 27-44: from the parsed pathname and parameters
toHDSrcOf_part000(pathname, type, file) ==
    IF IsThumbnailPath(pathname) /\ type = V_avatar /\ file # Null
    THEN CHARACTERS \o file
    ELSE PathFormHD(MatchRest(pathname, THUMBNAILS_AVATAR), Null)

toHDSrcURL_part000(url) ==
    IF ~url.ok THEN Null
    ELSE toHDSrcOf_part000(url.pathname, SearchParamsGet(url.query, K_type),
                           SearchParamsGet(url.query, K_file))

\* src/unnamed/part_000 toHDSrc
toHDSrc_part000(src) ==
    IF src = Null THEN Null
    ELSE toHDSrcURL_part000(ParseURL(Base(src)))

\* the translator of the installed script
Translate(isLazy, src) == IF isLazy THEN toHDSrc(src) ELSE toHDSrc_part000(src)

\* img.src (the getter): the attribute resolved against the page, serialised
Resolve(attr) ==
    LET s == StripSpaces(attr)
    IN IF s = Null THEN Null
       ELSE IF StartsWith(s, SCHEME_HTTP) \/ StartsWith(s, SCHEME_HTTPS)
            THEN PercentEncode(s)
       ELSE Origin \o (IF StartsWith(s, <<"/">>) THEN <<>> ELSE <<"/">>)
                   \o PercentEncode(s)

-----------------------------------------------------------------------------
(* The page *)

\* The page of the model holds one <img>. All state of the two scripts is per
\* element (its dataset, its listeners, its registration with lazyObserver), and
\* no handler reads one image while it works on another.
ImgOrder == <<1>>      \* document.querySelectorAll('img'), in document order
Imgs == { ImgOrder[k] : k \in 1..Len(ImgOrder) }

\* sources the host page gives its images
TA == <<"/","t","h","u","m","b","n","a","i","l","?","t","y","p","e","=","a","v","a","t","a","r","&","f","i","l","e","=","a">>
TB == <<"/","t","h","u","m","b","n","a","i","l","?","t","y","p","e","=","a","v","a","t","a","r","&","f","i","l","e","=","b">>
TP == <<"/","t","h","u","m","b","n","a","i","l","?","t","y","p","e","=","p","e","r","s","o","n","a","&","f","i","l","e","=","p">>
PX == <<"/","i","m","g","/","x",".","p","n","g">>
Sources == {TA, TB, TP, PX}

\* index.js:11
MIN_DISPLAY_SIZE == 32

\* rendered and intrinsic sizes an image can have
Sizes ==
    { [offsetWidth |-> 16, offsetHeight |-> 16, clientWidth |-> 16, clientHeight |-> 16,
       naturalWidth |-> 16, naturalHeight |-> 16],
      [offsetWidth |-> 48, offsetHeight |-> 16, clientWidth |-> 48, clientHeight |-> 16,
       naturalWidth |-> 96, naturalHeight |-> 32],
      [offsetWidth |-> 0, offsetHeight |-> 0, clientWidth |-> 0, clientHeight |-> 0,
       naturalWidth |-> 64, naturalHeight |-> 64] }

SmallSize == CHOOSE z \in Sizes : z.offsetWidth = 16

Unset == "unset"    \* dataset.hdUpgraded is absent

NoDispatch == [target |-> 0, queue |-> <<>>]

\* no MutationRecord is pending and no error event is being dispatched
Quiescent == records = <<>> /\ dispatch.queue = <<>>

\* the state the operations below transform
World == [img |-> img, observed |-> observed, records |-> records]

\* a || b || c || 0
OrElse(a, b, c) == IF a # 0 THEN a ELSE IF b # 0 THEN b ELSE c

\* index.js isBigEnough, of a size
BigEnough(z) ==
    \/ OrElse(z.offsetWidth, z.clientWidth, z.naturalWidth) >= MIN_DISPLAY_SIZE
    \/ OrElse(z.offsetHeight, z.clientHeight, z.naturalHeight) >= MIN_DISPLAY_SIZE

\* index.js isBigEnough
isBigEnough(W, i) == BigEnough(W.img[i].size)

\* img.src = v: the attribute is set, the image starts to load v, and an armed
\* MutationObserver is sent an 'attributes' record if the image is in the document
SetSrc(W, i, v, who) ==
    [W EXCEPT !.img[i].src = v,
              !.img[i].load = "pending",
              !.records = IF armed /\ W.img[i].inDoc
                          THEN Append(@, [type |-> "attributes", target |-> i, by |-> who])
                          ELSE @]

\* the three error listeners of the two scripts
OnError(original, hd) == [kind |-> "onError", original |-> original, hd |-> hd]
Fallback(original) == [kind |-> "fallback", original |-> original, hd |-> Null]
Restore == [kind |-> "restore", original |-> Null, hd |-> Null]

Outcome(W, i, o) == [W EXCEPT !.img[i].outcome = o]

\* the writes of a swap: the listener l is added, dataset.hdUpgraded = '1',
\* dataset.originalSrc = original, img.src = hd.  For the properties, the
\* attribute before the swap and the candidate are noted, the counters reset;
\* writes counts the writes of the source by the scripts since the host page
\* last assigned it.
Swap(W, i, l, original, hd) ==
    [W EXCEPT !.img[i].listeners = Append(@, l),
              !.img[i].hdUpgraded = "1",
              !.img[i].originalSrc = original,
              !.img[i].src = hd,
              !.img[i].load = "pending",
              !.records = IF armed /\ W.img[i].inDoc
                          THEN Append(@, [type |-> "attributes", target |-> i, by |-> "sys"])
                          ELSE @,
              !.img[i].ext = W.img[i].src,
              !.img[i].cand = hd,
              !.img[i].fails = 0,
              !.img[i].nRetry = 0,
              !.img[i].touched = FALSE,
              !.img[i].swaps = @ + 1,
              !.img[i].writes = @ + 1,
              !.img[i].outcome = "swapped"]

\* index.js swapSrc, lines 69-91, given original and hd
swapSrcTo(W, i, original, hd) ==
    IF hd = Null THEN Outcome(W, i, "nohd")
    ELSE Swap(W, i, OnError(original, hd), original, hd)

\* index.js:67  img.dataset.originalSrc || img.getAttribute('src')
Original(d) == IF d.originalSrc # Null THEN d.originalSrc ELSE d.src

swapSrcFrom(W, i, original) == swapSrcTo(W, i, original, toHDSrc(original))

\* index.js swapSrc
swapSrc(W, i) == swapSrcFrom(W, i, Original(W.img[i]))

\* index.js scheduleUpgrade, lines 117-124
Enqueue(W, i) ==
    IF ioSupported
    THEN [W EXCEPT !.img[i].hdUpgraded = "queued",
                   !.img[i].outcome = "queued",
                   !.observed = @ \cup {i}]
    ELSE IF isBigEnough(W, i)
         THEN swapSrc([W EXCEPT !.img[i].hdUpgraded = "queued"], i)
    ELSE [W EXCEPT !.img[i].hdUpgraded = "queued", !.img[i].outcome = "small"]

\* the test of dataset.hdUpgraded left out
AlreadyHandled_never(d) == FALSE

\* index.js:114, part_000:52  if (img.dataset.hdUpgraded) return;
AlreadyHandled(d) == d.hdUpgraded # Unset

\* scheduleUpgrade without the translator's test of line 115
scheduleUpgrade_nocheck(W, i) ==
    IF AlreadyHandled(W.img[i]) THEN Outcome(W, i, "skip")
    ELSE Enqueue(W, i)

\* index.js scheduleUpgrade
scheduleUpgrade(W, i) ==
    IF AlreadyHandled(W.img[i]) THEN Outcome(W, i, "skip")
    ELSE IF toHDSrc(W.img[i].src) = Null THEN Outcome(W, i, "nomatch")
    ELSE Enqueue(W, i)

\* part_000 upgradeImg, lines 55-66, given hd
upgradeImgTo(W, i, hd) ==
    IF hd = Null THEN Outcome(W, i, "nomatch")
    ELSE Swap(W, i, Restore, Resolve(W.img[i].src), hd)

\* part_000 upgradeImg
upgradeImg(W, i) ==
    IF AlreadyHandled(W.img[i]) THEN Outcome(W, i, "skip")
    ELSE upgradeImgTo(W, i, toHDSrc_part000(W.img[i].src))

\* the controller entry point of the installed script
Feed(W, i) == IF lazy THEN scheduleUpgrade(W, i) ELSE upgradeImg(W, i)

\* img.src = original; img.dataset.hdUpgraded = 'err'
Failed(W, i, original) ==
    [W EXCEPT !.img[i].src = original,
              !.img[i].load = "pending",
              !.img[i].hdUpgraded = "err",
              !.img[i].writes = @ + 1,
              !.records = IF armed /\ W.img[i].inDoc
                          THEN Append(@, [type |-> "attributes", target |-> i, by |-> "sys"])
                          ELSE @]

\* the retry, with the state flag set to 'retrying'
Retry_retrying(W, i, original, filename) ==
    [W EXCEPT !.img[i].listeners = Append(@, Fallback(original)),
              !.img[i].src = USER_AVATARS \o filename,
              !.img[i].load = "pending",
              !.img[i].hdUpgraded = "retrying",
              !.img[i].nRetry = @ + 1,
              !.img[i].writes = @ + 1,
              !.records = IF armed /\ W.img[i].inDoc
                          THEN Append(@, [type |-> "attributes", target |-> i, by |-> "sys"])
                          ELSE @]

\* index.js onError, lines 75-81: the retry with /User Avatars/<filename>
Retry(W, i, original, filename) ==
    [W EXCEPT !.img[i].listeners = Append(@, Fallback(original)),
              !.img[i].src = USER_AVATARS \o filename,
              !.img[i].load = "pending",
              !.img[i].nRetry = @ + 1,
              !.img[i].writes = @ + 1,
              !.records = IF armed /\ W.img[i].inDoc
                          THEN Append(@, [type |-> "attributes", target |-> i, by |-> "sys"])
                          ELSE @]

\* one error listener, run on image i: index.js onError (retried is false
\* whenever this once-listener runs), index.js:77-80, part_000:61-64
RunOne(W, i, l) ==
    CASE l.kind = "onError" ->
            IF Includes(l.hd, CHARACTERS)
            THEN Retry(W, i, l.original, SplitSecond(l.hd, CHARACTERS))
            ELSE Failed(W, i, l.original)
      [] l.kind = "fallback" -> Failed(W, i, l.original)
      [] l.kind = "restore" -> Failed(W, i, W.img[i].originalSrc)

\* delete img.dataset.hdUpgraded; if (ioSupported) lazyObserver.unobserve(img)
ResetFlag(W, i) ==
    [W EXCEPT !.img[i].hdUpgraded = Unset,
              !.observed = IF lazy /\ ioSupported THEN @ \ {i} ELSE @]

\* index.js:152, part_000:99
\* img.dataset.hdUpgraded && img.dataset.hdUpgraded !== 'err'
MustReset(d) == d.hdUpgraded # Unset /\ d.hdUpgraded # "err"

\* the MutationObserver callback's body for one MutationRecord
\* (index.js startMutationObserver, part_000 startObserver)
OnRecord(W, r) ==
    Feed(IF r.type = "attributes" /\ MustReset(W.img[r.target])
         THEN ResetFlag(W, r.target)
         ELSE W, r.target)

\* for (const mutation of mutations) ...
RECURSIVE OnRecords(_, _)
OnRecords(W, rs) ==
    IF rs = <<>> THEN W
    ELSE OnRecords(OnRecord(W, Head(rs)), Tail(rs))

\* document.querySelectorAll('img').forEach(feed), from the k-th image on
RECURSIVE FeedAll(_, _)
FeedAll(W, k) ==
    IF k > Len(ImgOrder) THEN W
    ELSE FeedAll(IF W.img[ImgOrder[k]].inDoc THEN Feed(W, ImgOrder[k]) ELSE W, k + 1)

Install(W) ==
    /\ img' = W.img
    /\ observed' = W.observed
    /\ records' = W.records

-----------------------------------------------------------------------------
(* Actions *)

NoOutput == [done |-> FALSE, hd |-> Null]

NewImg(s, d, z) ==
    [src |-> s, hdUpgraded |-> Unset, originalSrc |-> Null, listeners |-> <<>>,
     load |-> "pending", size |-> z, inDoc |-> d,
     ext |-> Null, cand |-> Null, fails |-> 0, nRetry |-> 0, touched |-> FALSE,
     swaps |-> 0, writes |-> 0, outcome |-> "none"]

Init ==
    /\ lazy \in BOOLEAN
    /\ ioSupported \in (IF lazy THEN BOOLEAN ELSE {FALSE})
    /\ armed = FALSE
    /\ scans = 0
    /\ \E s \in [Imgs -> Sources], d \in [Imgs -> BOOLEAN],
          z \in [Imgs -> IF lazy THEN Sizes ELSE {SmallSize}] :
            img = [i \in Imgs |-> NewImg(s[i], d[i], z[i])]
    /\ observed = {}
    /\ records = <<>>
    /\ dispatch = NoDispatch
    /\ hostOps = 0
    /\ input = Null
    /\ output = NoOutput

\* init() run whenever the document is ready, also when it has run already
InitScript_again ==
    /\ scans < 2
    /\ dispatch.queue = <<>>
    /\ Install(FeedAll(World, 1))
    /\ armed' = TRUE
    /\ scans' = scans + 1
    /\ UNCHANGED <<lazy, ioSupported, dispatch, hostOps, input, output>>

\* init(): the scan of the document, then the MutationObserver is armed.
\* It is called once: at once when the document is past 'loading', else by the
\* DOMContentLoaded event (index.js:177-181, part_000:124-128).
InitScript ==
    /\ ~armed
    /\ dispatch.queue = <<>>
    /\ Install(FeedAll(World, 1))
    /\ armed' = TRUE
    /\ scans' = scans + 1
    /\ UNCHANGED <<lazy, ioSupported, dispatch, hostOps, input, output>>

\* the host page may act between tasks, and goes on within its own task
HostMayAct ==
    /\ hostOps < MaxHostOps
    /\ dispatch.queue = <<>>
    /\ \A k \in 1..Len(records) : records[k].by = "host"

\* the host page assigns the src attribute of an image
HostSetSrc(i, s) ==
    /\ HostMayAct
    /\ Install(SetSrc([World EXCEPT !.img[i].touched = TRUE, !.img[i].writes = 0],
                      i, s, "host"))
    /\ hostOps' = hostOps + 1
    /\ UNCHANGED <<lazy, ioSupported, scans, armed, dispatch, input, output>>

\* the host page attaches (or moves) an image in the document
HostInsert(i) ==
    /\ HostMayAct
    /\ Install([World EXCEPT
                  !.img[i].inDoc = TRUE,
                  !.records = IF armed
                              THEN Append(@, [type |-> "childList", target |-> i,
                                              by |-> "host"])
                              ELSE @])
    /\ hostOps' = hostOps + 1
    /\ UNCHANGED <<lazy, ioSupported, scans, armed, dispatch, input, output>>

\* the layout gives an image another size
HostResize(i, z) ==
    /\ lazy
    /\ dispatch.queue = <<>>
    /\ z # img[i].size
    /\ img' = [img EXCEPT ![i].size = z]
    /\ UNCHANGED <<lazy, ioSupported, scans, armed, observed, records, dispatch, hostOps,
                   input, output>>

\* the MutationObserver callback, with every record queued so far
MutationCallback ==
    /\ records # <<>>
    /\ Install(OnRecords([World EXCEPT !.records = <<>>], records))
    /\ UNCHANGED <<lazy, ioSupported, scans, armed, dispatch, hostOps, input, output>>

\* the IntersectionObserver callback with unobserve inside the size test
Intersect_keep(i) ==
    /\ lazy
    /\ i \in observed
    /\ Quiescent
    /\ Install(IF isBigEnough(World, i)
               THEN swapSrc([World EXCEPT !.observed = @ \ {i}], i)
               ELSE [World EXCEPT !.img[i].outcome = "small"])
    /\ UNCHANGED <<lazy, ioSupported, scans, armed, dispatch, hostOps, input, output>>

\* the IntersectionObserver callback, for an entry that is intersecting
Intersect(i) ==
    /\ lazy
    /\ i \in observed
    /\ Quiescent
    /\ Install(IF isBigEnough(World, i)
               THEN swapSrc([World EXCEPT !.observed = @ \ {i}], i)
               ELSE [World EXCEPT !.observed = @ \ {i}, !.img[i].outcome = "small"])
    /\ UNCHANGED <<lazy, ioSupported, scans, armed, dispatch, hostOps, input, output>>

\* the pending load of an image succeeds
LoadOk(i) ==
    /\ img[i].load = "pending"
    /\ Quiescent
    /\ img' = [img EXCEPT ![i].load = "ok"]
    /\ UNCHANGED <<lazy, ioSupported, scans, armed, observed, records, dispatch, hostOps,
                   input, output>>

\* the pending load of an image fails: an error event is dispatched to the
\* listeners registered at that moment; all of them are once-listeners
ErrorEvent(i) ==
    /\ img[i].load = "pending"
    /\ Quiescent
    /\ img' = [img EXCEPT ![i].load = "error",
                          ![i].fails = @ + 1,
                          ![i].listeners = <<>>]
    /\ dispatch' = [target |-> i, queue |-> img[i].listeners]
    /\ UNCHANGED <<lazy, ioSupported, scans, armed, observed, records, hostOps,
                   input, output>>

\* the next listener of the event runs (after the microtasks of the previous one)
RunListener ==
    /\ dispatch.queue # <<>>
    /\ records = <<>>
    /\ Install(RunOne(World, dispatch.target, Head(dispatch.queue)))
    /\ dispatch' = [dispatch EXCEPT !.queue = Tail(@)]
    /\ UNCHANGED <<lazy, ioSupported, scans, armed, hostOps, input, output>>

Next ==
    \/ InitScript
    \/ \E i \in Imgs, s \in Sources : HostSetSrc(i, s)
    \/ \E i \in Imgs : HostInsert(i)
    \/ \E i \in Imgs, z \in Sizes : HostResize(i, z)
    \/ MutationCallback
    \/ \E i \in Imgs : Intersect(i)
    \/ \E i \in Imgs : LoadOk(i)
    \/ \E i \in Imgs : ErrorEvent(i)
    \/ RunListener

Spec == Init /\ [][Next]_vars


-----------------------------------------------------------------------------
(* The translator on its own: a source string is drawn, then translated *)

\* what file names are made of: a letter, the text `thumbnail`, and the
\* characters that URL parsing treats specially
Tokens ==
    { <<"a">>, THUMBNAIL, <<"/">>, <<"=">>, <<"?">>, <<" ">>, <<"&">>, <<"+">>,
      <<"#">>, <<"%", "2", "0">> }

RECURSIVE FilesUpTo(_)
FilesUpTo(n) ==
    IF n = 0 THEN { <<>> }
    ELSE LET shorter == FilesUpTo(n - 1)
         IN shorter \cup { f \o tk : f \in shorter, tk \in Tokens }

Files == FilesUpTo(MaxTokens) \ { <<>> }

Kinds == { V_avatar, V_persona, <<"x">> }

\* /thumbnail?type=<kind>&file=<F>
QueryForm(kind, F) ==
    SLASH_THUMBNAIL \o <<"?">> \o K_type \o <<"=">> \o kind
                    \o <<"&">> \o K_file \o <<"=">> \o F

\* /thumbnails/<kind>/<F>
PathForm(kind, F) == <<"/">> \o THUMBNAIL \o <<"s", "/">> \o kind \o <<"/">> \o F

\* query strings that carry no file, or an empty one
NoFileQueries ==
    { <<>>,
      <<"?">> \o K_type \o <<"=">> \o V_avatar,
      <<"?">> \o K_type \o <<"=">> \o V_persona \o <<"&">> \o K_file \o <<"=">>,
      <<"?">> \o K_file }

Relative ==
    { QueryForm(k, F) : k \in Kinds, F \in Files }
    \cup { SLASH_THUMBNAIL \o <<"?">> \o K_file \o <<"=">> \o F : F \in Files }
    \cup { PathForm(k, F) \o q : k \in Kinds, F \in Files, q \in NoFileQueries }
    \cup { SLASH_THUMBNAIL \o q : q \in NoFileQueries }
    \cup { PX, HTTP \o SLASH_THUMBNAIL \o <<"?">> \o K_file \o <<"=", "a">> }

Inputs ==
    Relative
    \cup { Origin \o r : r \in Relative }
    \cup { Tail(r) : r \in Relative }
    \cup { Null }

InitTr ==
    /\ lazy \in BOOLEAN
    /\ ioSupported = FALSE
    /\ armed = FALSE
    /\ scans = 0
    /\ img = [i \in Imgs |-> NewImg(PX, FALSE, SmallSize)]
    /\ observed = {}
    /\ records = <<>>
    /\ dispatch = NoDispatch
    /\ hostOps = 0
    /\ input \in Inputs
    /\ output = NoOutput

\* toHDSrc(input) of the installed script
TranslateInput ==
    /\ ~output.done
    /\ output' = [done |-> TRUE, hd |-> Translate(lazy, input)]
    /\ UNCHANGED <<lazy, ioSupported, scans, armed, img, observed, records, dispatch,
                   hostOps, input>>

NextTr == TranslateInput

SpecTr == InitTr /\ [][NextTr]_vars


-----------------------------------------------------------------------------
(* Properties of the page *)

\* the file name of a /characters/<file> candidate
FileOfCandidate(c) == From(c, Len(CHARACTERS) + 1)

\* a full-resolution path
IsCandidate(s) == StartsWith(s, CHARACTERS) \/ StartsWith(s, USER_AVATARS)

\* the step is a run of the MutationObserver callback
CallbackStep == records # <<>> /\ records' # records /\ hostOps' = hostOps

\* the latest swap of image i is an attempt the host page has not interfered with
OwnAttempt(i) == img[i].swaps >= 1 /\ ~img[i].touched

\* the fallback chain of the latest attempt is exhausted: the candidate failed
\* and no retry was issued, or the candidate and the retry both failed
Exhausted(i) ==
    \/ img[i].fails >= 1 /\ img[i].nRetry = 0
    \/ img[i].fails >= 2 /\ img[i].nRetry >= 1

\* C1: when the host page has replaced the thumbnail of an already upgraded
\* image by another recognized thumbnail B, the next swap assigns the path
\* translated from B, and that path is the final source if it loads.
C1_ReupgradeUsesNewThumbnail ==
    \A i \in Imgs :
        (img[i].swaps >= 2) =>
            /\ img[i].cand = Translate(lazy, img[i].ext)
            /\ (/\ ~img[i].touched
                /\ img[i].fails = 0
                /\ img[i].load = "ok"
                /\ Quiescent) => img[i].src = Translate(lazy, img[i].ext)

\* C2: an image whose source was the query-form avatar thumbnail of F and whose
\* candidate /characters/F has loaded has, once no observer callback is pending,
\* the source /characters/F and the state `upgraded`.
C2_LoadedCandidateIsUpgraded ==
    \A i \in Imgs : \A F \in { <<"a">>, <<"b">> } :
        (/\ OwnAttempt(i)
         /\ img[i].ext = QueryForm(V_avatar, F)
         /\ img[i].fails = 0
         /\ img[i].load = "ok"
         /\ Quiescent)
        => /\ img[i].src = CHARACTERS \o F
           /\ img[i].hdUpgraded = "1"

\* C3: once the fallback chain of an attempt is exhausted, the source is the one
\* the image had immediately before the attempt began, and the state is `error`.
C3_ExhaustedRestoresSource ==
    \A i \in Imgs :
        (OwnAttempt(i) /\ Exhausted(i) /\ Quiescent)
        => /\ Resolve(img[i].src) = Resolve(img[i].ext)
           /\ img[i].hdUpgraded = "err"

\* C4: when the host page changes the source of an image in state `error` to a
\* recognized thumbnail, the mutation watcher takes the image out of `error`
\* and the cycle restarts (the image is queued or swapped again).
C4_ErrorResetOnExternalChange ==
    [][\A i \in Imgs :
          (/\ CallbackStep
           /\ img[i].hdUpgraded = "err"
           /\ records = << [type |-> "attributes", target |-> i, by |-> "host"] >>
           /\ Translate(lazy, img[i].src) # Null)
          => img'[i].hdUpgraded \in {"queued", "1"}]_vars

\* C5: while the host page does not act, an image in state `error` stays in
\* `error` and is never assigned a full-resolution candidate.
C5_ErrorIsTerminal ==
    [][\A i \in Imgs :
          (img[i].hdUpgraded = "err" /\ hostOps' = hostOps)
          => /\ img'[i].hdUpgraded = "err"
             /\ img'[i].src # img[i].src => ~IsCandidate(img'[i].src)]_vars

\* C6: in the script with the retry chain, after the candidate /characters/F
\* has failed the retry /User Avatars/F has been assigned exactly once, it is
\* the source, and the original thumbnail has not been restored.
C6_RetryExactlyOnce ==
    \A i \in Imgs :
        (/\ lazy
         /\ OwnAttempt(i)
         /\ StartsWith(img[i].cand, CHARACTERS)
         /\ img[i].fails = 1
         /\ Quiescent)
        => /\ img[i].nRetry = 1
           /\ img[i].src = USER_AVATARS \o FileOfCandidate(img[i].cand)
           /\ img[i].hdUpgraded # "err"

\* the record r re-feeds an image that is upgraded, queued or in error
Refeeds(r) ==
    \/ r.type = "childList" /\ img[r.target].hdUpgraded \in {"1", "queued", "err"}
    \/ r.type = "attributes" /\ img[r.target].hdUpgraded = "err"

\* C7: feeding an image whose state is upgraded, queued or error to the
\* controller changes nothing: source, flag, originalSrc, listeners, load and
\* the registration with the proximity watcher are as before.
C7_RefeedIsNoOp ==
    [][(CallbackStep /\ \A k \in 1..Len(records) : Refeeds(records[k]))
       => /\ \A i \in Imgs : [img'[i] EXCEPT !.outcome = img[i].outcome] = img[i]
          /\ observed' = observed
          /\ records' = <<>>]_vars

C7_Witness ==
    \E i \in Imgs :
        /\ img[i].outcome = "skip"
        /\ img[i].hdUpgraded = "1"
        /\ img[i].src = CHARACTERS \o <<"a">>
        /\ armed

-----------------------------------------------------------------------------
(* Properties of the translator *)

CharsOf(F) == { F[k] : k \in 1..Len(F) }

\* a file name of letters only
PlainFile(F) == CharsOf(F) \subseteq CharsOf(THUMBNAIL)

\* a file name without the characters a query string gives a meaning to
Unreserved(F) == CharsOf(F) \cap {"&", "#", "+", "%", " "} = {}

\* /thumbnail?type=<kind>&file=
QueryPrefix(kind) == QueryForm(kind, <<>>)

\* /thumbnails/<kind>/
PathPrefix(kind) == PathForm(kind, <<>>)

\* the text that follows prefix in s, when s is prefix followed by some text
FileAfter(s, prefix) ==
    IF StartsWith(s, prefix) /\ Len(s) > Len(prefix)
    THEN From(s, Len(prefix) + 1)
    ELSE Null

\* the translation of prefix \o F is target \o F, for the file names F that
\* satisfy Ok; nothing is said of a string not of that form
Yields(prefix, target, Ok(_)) ==
    (FileAfter(input, prefix) # Null /\ Ok(FileAfter(input, prefix)))
    => output.hd = target \o FileAfter(input, prefix)

AnyFile(F) == TRUE

\* C8: the path form /thumbnails/avatar/F translates to /characters/F and
\* /thumbnails/persona/F to /User Avatars/F, for every file name F, also one
\* that ends with `thumbnail`.
C8_PathFormTranslates ==
    (lazy /\ output.done)
    => /\ Yields(PathPrefix(V_avatar), CHARACTERS, PlainFile)
       /\ Yields(PathPrefix(V_persona), USER_AVATARS, PlainFile)

\* C9 as stated: for every non-empty file name F the query form
\* /thumbnail?type=avatar&file=F translates to /characters/F and
\* /thumbnail?type=persona&file=F to /User Avatars/F.
C9_QueryFormTranslatesAny ==
    output.done
    => /\ Yields(QueryPrefix(V_avatar), CHARACTERS, AnyFile)
       /\ Yields(QueryPrefix(V_persona), USER_AVATARS, AnyFile)

\* C9 as amended: for every non-empty F without '&', '#', '+', '%' and white
\* space, type=avatar&file=F translates to /characters/F in both scripts, and
\* type=persona&file=F to /User Avatars/F in index.js, to no match in part_000.
C9_QueryFormTranslates ==
    output.done
    => /\ Yields(QueryPrefix(V_avatar), CHARACTERS, Unreserved)
       /\ lazy => Yields(QueryPrefix(V_persona), USER_AVATARS, Unreserved)
       /\ (/\ ~lazy
           /\ FileAfter(input, QueryPrefix(V_persona)) # Null
           /\ Unreserved(FileAfter(input, QueryPrefix(V_persona))))
          => output.hd = Null

C9_Witness ==
    /\ output.done
    /\ lazy
    /\ input = QueryForm(V_persona, <<"a", "/">>)
    /\ output.hd = USER_AVATARS \o <<"a", "/">>

\* the string parses, its path ends with `thumbnail`, and its query has no
\* file parameter or an empty one
QueryFormNoFile(s) ==
    /\ s # Null
    /\ ParseURL(Base(s)).ok
    /\ EndsWith(ParseURL(Base(s)).pathname, THUMBNAIL)
    /\ SearchParamsGet(ParseURL(Base(s)).query, K_file) = Null

\* C10 as stated: a source in query form without a file parameter, or with an
\* empty one, has no translation.
C10_NoFileNoMatchAny ==
    (output.done /\ QueryFormNoFile(input)) => output.hd = Null

\* C10 as amended: such a source has no translation in index.js; in part_000
\* it has none unless its path also has the form /thumbnails/avatar/<rest>,
\* which part_000 translates to /characters/<rest>.
C10_NoFileNoMatch ==
    (output.done /\ QueryFormNoFile(input))
    => output.hd =
         IF ~lazy /\ MatchRest(ParseURL(Base(input)).pathname, THUMBNAILS_AVATAR) # Null
         THEN CHARACTERS \o MatchRest(ParseURL(Base(input)).pathname, THUMBNAILS_AVATAR)
         ELSE Null

C10_Witness ==
    /\ output.done
    /\ lazy
    /\ input = SLASH_THUMBNAIL \o <<"?">> \o K_type \o <<"=">> \o V_persona
                 \o <<"&">> \o K_file \o <<"=">>
    /\ output.hd = Null

-----------------------------------------------------------------------------
(* Properties of the lazy gate and of the listener chains *)

\* the rendered (layout) width and height of the size z are both below the
\* minimum display size
RenderedSmall(z) ==
    /\ z.offsetWidth < MIN_DISPLAY_SIZE /\ z.clientWidth < MIN_DISPLAY_SIZE
    /\ z.offsetHeight < MIN_DISPLAY_SIZE /\ z.clientHeight < MIN_DISPLAY_SIZE

\* C11: in the lazy script, an image the script has not written so far and
\* whose rendered width and height are both below the minimum display size does
\* not have its source written by the script, whether the proximity watcher
\* exists or not and whether the image is reported as intersecting or not.
C11_SmallNeverSwapped ==
    [][\A i \in Imgs :
          (/\ lazy
           /\ img[i].swaps = 0
           /\ RenderedSmall(img[i].size)
           /\ hostOps' = hostOps)
          => img'[i].src = img[i].src]_vars

\* C12: at most one failure listener of the scripts is armed on an image, and
\* an error event runs at most one of them.
C12_OneListenerChain ==
    /\ \A i \in Imgs : Len(img[i].listeners) <= 1
    /\ Len(dispatch.queue) <= 1

\* the step is a write of the source of image i by a failure listener
ListenerWrites(i) ==
    /\ hostOps' = hostOps
    /\ img'[i].swaps = img[i].swaps
    /\ img'[i].src # img[i].src

\* C13: once the host page has assigned a new source X, a load failure of X
\* makes the scripts write nothing and mark nothing as `error`; and a load
\* failure of a candidate derived from X makes them write only the retry path
\* of that candidate or the source the image had before that swap.
C13_SupersededCycleIsCancelled ==
    [][\A i \in Imgs :
          /\ (img[i].touched /\ img'[i].touched /\ hostOps' = hostOps)
             => /\ img'[i].src = img[i].src
                /\ img'[i].hdUpgraded = "err" => img[i].hdUpgraded = "err"
          /\ (~img[i].touched /\ ListenerWrites(i))
             => \/ img'[i].src = USER_AVATARS \o FileOfCandidate(img[i].cand)
                \/ Resolve(img'[i].src) = Resolve(img[i].ext)]_vars

\* the retry of the latest attempt of image i is pending: /characters/F has
\* failed, /User Avatars/F is assigned and has neither loaded nor failed
RetryPending(i) ==
    /\ lazy
    /\ OwnAttempt(i)
    /\ img[i].fails = 1
    /\ img[i].nRetry >= 1
    /\ img[i].load = "pending"
    /\ StartsWith(img[i].src, USER_AVATARS)

Pristine(i) ==
    /\ img[i].hdUpgraded = Unset
    /\ img[i].originalSrc = Null
    /\ img[i].listeners = <<>>
    /\ img[i].swaps = 0

\* C15: an image the scripts have written nothing on and whose source matches
\* no recognized thumbnail pattern is left as it is by every step of the
\* scripts (scan, mutation callback, proximity callback, load, load failure):
\* source, flag, originalSrc and listeners are not written.  An image none of
\* whose sources ever matched is in that case at every moment, as it starts
\* unwritten and the host page only gives it other sources that do not match.
C15_UnmatchedIsUntouched ==
    /\ [](~armed => \A i \in Imgs : Pristine(i))
    /\ [][\A i \in Imgs :
             (/\ Pristine(i)
              /\ Translate(lazy, img[i].src) = Null
              /\ hostOps' = hostOps)
             => /\ img'[i].src = img[i].src
                /\ img'[i].hdUpgraded = Unset
                /\ img'[i].originalSrc = Null
                /\ img'[i].listeners = <<>>
                /\ img'[i].swaps = 0
                /\ observed' = observed
                /\ dispatch'.queue = <<>>]_vars

C15_Witness ==
    \E i \in Imgs :
        /\ Pristine(i)
        /\ armed
        /\ img[i].touched
        /\ img[i].src = PX
        /\ img[i].outcome = "nomatch"
        /\ img[i].load = "error"

\* C16: the scan of the document runs exactly once.  Until it has run the
\* watcher is not armed, no record is queued for it and the controller has been
\* fed no image; the step of the scan feeds every image of the document and
\* arms the watcher, with no record queued for what the scan wrote; the scan
\* never runs again.
C16_ScanOnceBeforeWatcher ==
    /\ [](/\ scans = (IF armed THEN 1 ELSE 0)
          /\ ~armed => /\ records = <<>>
                       /\ \A i \in Imgs : img[i].outcome = "none")
    /\ [][/\ armed => armed' /\ scans' = scans
          /\ (~armed /\ armed')
             => /\ records' = <<>>
                /\ \A i \in Imgs : img[i].inDoc => img'[i].outcome # "none"
                /\ \A i \in Imgs : ~img[i].inDoc => img'[i] = img[i]
          /\ CallbackStep => armed]_vars

C16_Witness ==
    /\ scans = 1
    /\ armed
    /\ hostOps >= 1
    /\ \E i \in Imgs : img[i].inDoc /\ img[i].outcome = "skip" /\ img[i].swaps = 1

\* every record queued for the watcher reports a write of the scripts
OwnRecords == \A k \in 1..Len(records) : records[k].by = "sys"

\* C17: for one source given by the host page the scripts write the source of
\* an image at most three times (candidate, retry, restored original), and the
\* mutation callback that reports a write of the scripts starts no swap.
C17_OwnWritesTerminate ==
    /\ [](\A i \in Imgs : img[i].writes <= 3)
    /\ [][(CallbackStep /\ OwnRecords)
          => \A i \in Imgs : /\ img'[i].swaps = img[i].swaps
                             /\ img'[i].src = img[i].src
                             /\ img'[i].hdUpgraded # "queued"]_vars

\* C18: in the lazy script, an image registered with the proximity watcher is
\* in state `queued`, so that the proximity callback swaps queued images only.
C18_ObservedIsQueued ==
    /\ ~lazy => observed = {}
    /\ \A i \in observed : img[i].hdUpgraded = "queued"

\* no change of the source of image i is waiting to be reported to the watcher
NoSrcRecord(i) ==
    \A k \in 1..Len(records) :
        ~(records[k].type = "attributes" /\ records[k].target = i)

\* C19: in the lazy script, the step in which the size check of a queued image
\* fails leaves the image queued, unregistered and unswapped; and from then on,
\* as long as its source is not written (by the host page or by a listener of
\* the scripts), the image stays queued, unregistered and unswapped, also when
\* it has grown past the threshold and is fed again.
C19_SmallStaysQueued ==
    [][\A i \in Imgs :
          /\ (/\ lazy
              /\ img[i].outcome # "small" /\ img'[i].outcome = "small"
              /\ i \in observed => img[i].hdUpgraded = "queued")
             => /\ img'[i].hdUpgraded = "queued"
                /\ i \notin observed'
                /\ img'[i].swaps = img[i].swaps
                /\ img'[i].src = img[i].src
          /\ (/\ lazy
              /\ img[i].hdUpgraded = "queued"
              /\ i \notin observed
              /\ NoSrcRecord(i)
              /\ img'[i].src = img[i].src
              /\ img'[i].writes = img[i].writes)
             => /\ img'[i].hdUpgraded = "queued"
                /\ i \notin observed'
                /\ img'[i].swaps = img[i].swaps]_vars

C19_Witness ==
    \E i \in Imgs :
        /\ lazy
        /\ ioSupported
        /\ img[i].hdUpgraded = "queued"
        /\ i \notin observed
        /\ BigEnough(img[i].size)
        /\ img[i].outcome = "skip"
        /\ img[i].swaps = 0
        /\ img[i].load = "ok"

=============================================================================
